---- MODULE Spec2Model ----
(***************************************************************************)
(* Model of shorts_limit_bot.py: the on_message handler, the two slash     *)
(* commands and the shorts_posts table they share.  Every await of the     *)
(* source is a point where the asyncio event loop may run another task, so *)
(* each coroutine is cut into one action per stretch of code between two   *)
(* awaits that touch shared state (the table, the wall clock).             *)
(*                                                                         *)
(* Time is counted in whole days: int(time.time()) and                     *)
(* int((now - timedelta(days)).timestamp()) both floor the same clock, so  *)
(* a row's posted_at_utc and a window_start are compared as integers.      *)
(* Events happen at the instants of Instants only: day 0, the day the      *)
(* window of day 0 ends, and every day after it.                           *)
(***************************************************************************)
EXTENDS Integers, Sequences, FiniteSets

\* ---------------------------------------------------------------- bounds
MaxTasks == 2        \* coroutines the event loop runs at the same time
MaxClock == 8        \* last instant of the wall clock (days)
MaxRows == 2         \* rows the table holds at most

\* ------------------------------------------------------------- constants
ROLLING_WINDOW_DAYS == 7

Tasks == 1..MaxTasks
Instants == {0} \cup (ROLLING_WINDOW_DAYS..MaxClock)
NoGuild == 0         \* message.guild is None (a direct message)

\* The (guild id, user id) pairs that post: two users of guild 1.
Pairs == {<<1, 1>>, <<1, 2>>}
Guilds == {p[1] : p \in Pairs}
Users == {p[2] : p \in Pairs}

\* Message texts, as sequences of tokens: "short" is a URL SHORTS_REGEX
\* matches, "watch" a youtube URL it does not match, "word" any other text.
Tokens == {"short", "watch", "word"}
Texts == {<<>>, <<"word">>, <<"watch">>, <<"short">>, <<"short", "word", "short">>}

\* Outcomes of a call to the chat platform.
Ok == "ok"
Forbidden == "forbidden"          \* discord.Forbidden (a discord.HTTPException)
HTTPException == "http"           \* any other discord.HTTPException
Outcomes == {Ok, Forbidden, HTTPException}
SqliteError == "sqlite"           \* what a failing aiosqlite call raises

VARIABLES clock, store, task, cfg

vars == <<clock, store, task, cfg>>

\* ------------------------------------------------------------ the table
Row(g, u, ts) == [guild_id |-> g, user_id |-> u, posted_at_utc |-> ts]

\* SHORTS_REGEX.findall: the tokens of the text that qualify, in order.
RECURSIVE extract_shorts_links(_)
extract_shorts_links(text) ==
    IF text = <<>> THEN <<>>
    ELSE IF Head(text) = "short"
         THEN <<Head(text)>> \o extract_shorts_links(Tail(text))
         ELSE extract_shorts_links(Tail(text))

\* A bug the WHERE clause could have: the guild is left out.
InWindowRowAnyGuild(r, g, u, window_start) ==
    r.user_id = u /\ r.posted_at_utc >= window_start

\* A bug the WHERE clause could have: the window is open at its lower end.
InWindowRowOpen(r, g, u, window_start) ==
    r.guild_id = g /\ r.user_id = u /\ r.posted_at_utc > window_start

\* A bug the WHERE clause could have: the user is left out.
InWindowRowAnyUser(r, g, u, window_start) ==
    r.guild_id = g /\ r.posted_at_utc >= window_start

\* The WHERE clause of the SELECT and of the DELETE.
InWindowRow(r, g, u, window_start) ==
    r.guild_id = g /\ r.user_id = u /\ r.posted_at_utc >= window_start

\* SELECT COUNT(*) FROM shorts_posts WHERE ...: a scan of the table.
RECURSIVE SelectCount(_, _, _, _)
SelectCount(rows, g, u, window_start) ==
    IF rows = <<>> THEN 0
    ELSE (IF InWindowRow(Head(rows), g, u, window_start) THEN 1 ELSE 0)
         + SelectCount(Tail(rows), g, u, window_start)

\* A bug the DELETE could have: it forgets only the pair's oldest row of the
\* window.
RECURSIVE DeleteFirstRow(_, _, _, _)
DeleteFirstRow(rows, g, u, window_start) ==
    IF rows = <<>> THEN <<>>
    ELSE IF InWindowRow(Head(rows), g, u, window_start)
         THEN Tail(rows)
         ELSE <<Head(rows)>> \o DeleteFirstRow(Tail(rows), g, u, window_start)

\* DELETE FROM shorts_posts WHERE ...: the rows that stay, in id order.
RECURSIVE DeleteRows(_, _, _, _)
DeleteRows(rows, g, u, window_start) ==
    IF rows = <<>> THEN <<>>
    ELSE IF InWindowRow(Head(rows), g, u, window_start)
         THEN DeleteRows(Tail(rows), g, u, window_start)
         ELSE <<Head(rows)>> \o DeleteRows(Tail(rows), g, u, window_start)

\* INSERT INTO shorts_posts ...: the new row gets the next id.
InsertRow(rows, g, u, ts) == Append(rows, Row(g, u, ts))

\* A bug WindowStart could have: a window one day too long.
WindowStartLong(now, days) == now - days - 1

\* window_start = int((datetime.now(utc) - timedelta(days)).timestamp())
WindowStart(now, days) == now - days

\* ------------------------------------------------------------ the tasks
\* One record per coroutine the event loop holds.  kind, pc and the fields
\* named after the source's locals are the coroutine's state; bot is whether
\* the message has a bot for author or came through a webhook; hist is a
\* history field, written and never read by the program's steps:
\*   on a message handler   "after_reset": the handler was entered right
\*                          after a reset of its pair, and no row of the pair
\*                          was inserted before its SELECT ran;
\*                          "occ": the pair had a row in [now - W, now] when
\*                          the handler was entered; "occ_counted": and still
\*                          had it when the SELECT ran;
\*                          "expired": the pair had one row when the handler
\*                          was entered, older than now - W;
\*   on a finished reset    "fresh" until a row of its pair is inserted;
\*                          its current_count is the number of rows its
\*                          DELETE removed.
IdleTask ==
    [kind |-> "none", pc |-> "idle", guild |-> NoGuild, user |-> 0,
     window_start |-> 0, current_count |-> 0, now_epoch |-> 0,
     links |-> 0, acts |-> <<>>, exc |-> Ok, hist |-> "none", bot |-> FALSE]

Set(t, rec) == task' = [task EXCEPT ![t] = rec]

\* Whether a task has made the advisory call `what` so far.
Did(t, what) == \E i \in 1..Len(task[t].acts) : task[t].acts[i] = what

\* Whether the table holds a row of the pair at or after window_start.
HasOccurrence(rows, g, u, window_start) ==
    \E i \in 1..Len(rows) :
        /\ rows[i].guild_id = g
        /\ rows[i].user_id = u
        /\ rows[i].posted_at_utc >= window_start

\* Whether a reset of the pair has just finished, with no insert since.
JustReset(g, u) ==
    \E r \in Tasks :
        /\ task[r].kind = "reset"
        /\ task[r].pc = "reset_done"
        /\ task[r].hist = "fresh"
        /\ task[r].guild = g
        /\ task[r].user = u

\* The rows of a pair.
RowsOf(rows, g, u) ==
    {i \in 1..Len(rows) : rows[i].guild_id = g /\ rows[i].user_id = u}

\* The history field of a handler entered for pair (g, u).
Entered(g, u) ==
    IF JustReset(g, u) THEN "after_reset"
    ELSE IF \E i \in RowsOf(store, g, u) :
               /\ store[i].posted_at_utc >= clock - ROLLING_WINDOW_DAYS
               /\ store[i].posted_at_utc <= clock
    THEN "occ"
    ELSE IF /\ Cardinality(RowsOf(store, g, u)) = 1
            /\ \A i \in RowsOf(store, g, u) :
                  clock - ROLLING_WINDOW_DAYS > store[i].posted_at_utc
    THEN "expired"
    ELSE "none"

\* What an insert of a row of pair (g, u) does to the history field of the
\* other tasks.
Spoil(rec, g, u) ==
    IF /\ rec.guild = g
       /\ rec.user = u
       /\ \/ rec.hist = "fresh"
          \/ rec.hist = "after_reset" /\ rec.pc = "count"
    THEN [rec EXCEPT !.hist = "none",
                     !.window_start = IF rec.kind = "reset" THEN 0 ELSE @]
    ELSE rec

\* The module-level configuration (lines 14-19).
Config == [DELETE_OFFENDING_MESSAGES |-> TRUE, DM_USER_ON_BLOCK |-> TRUE]

\* A fresh database file: init_db creates the empty table (lines 44-56).
Init ==
    /\ clock = 0
    /\ store = <<>>
    /\ task = [t \in Tasks |-> IdleTask]
    /\ cfg = Config

\* A bug on_message could have: the guild is tested before the links.
ReceiveGuildFirst(t) ==
    /\ task[t].pc = "idle"
    /\ \E bot \in BOOLEAN, webhook \in BOOLEAN, text \in Texts,
          g \in Guilds \cup {NoGuild}, u \in Users :
         (g = NoGuild \/ <<g, u>> \in Pairs) /\
         LET shorts_links == extract_shorts_links(text)
             window_start == WindowStart(clock, ROLLING_WINDOW_DAYS)
             m == [IdleTask EXCEPT !.kind = "msg"]
             n == [m EXCEPT !.links = Len(shorts_links)]
         IN  IF bot \/ webhook
             THEN Set(t, [m EXCEPT !.pc = "ignored", !.bot = TRUE])
             ELSE IF g = NoGuild
             THEN Set(t, [n EXCEPT !.pc = "noguild"])
             ELSE IF shorts_links = <<>>
             THEN Set(t, [n EXCEPT !.pc = "passthrough"])
             ELSE Set(t, [n EXCEPT !.pc = "count", !.guild = g, !.user = u,
                            !.window_start = window_start,
                            !.hist = Entered(g, u)])
    /\ UNCHANGED <<clock, store, cfg>>

\* A bug on_message could have: the test of lines 99-100 is missing.
ReceiveFromAnyone(t) ==
    /\ task[t].pc = "idle"
    /\ \E bot \in BOOLEAN, webhook \in BOOLEAN, text \in Texts,
          g \in Guilds \cup {NoGuild}, u \in Users :
         (g = NoGuild \/ <<g, u>> \in Pairs) /\
         LET shorts_links == extract_shorts_links(text)
             window_start == WindowStart(clock, ROLLING_WINDOW_DAYS)
             m == [IdleTask EXCEPT !.kind = "msg", !.bot = bot \/ webhook]
             n == [m EXCEPT !.links = Len(shorts_links)]
         IN  IF shorts_links = <<>>
             THEN Set(t, [n EXCEPT !.pc = "passthrough"])
             ELSE IF g = NoGuild
             THEN Set(t, [n EXCEPT !.pc = "noguild"])
             ELSE Set(t, [n EXCEPT !.pc = "count", !.guild = g, !.user = u,
                            !.window_start = window_start,
                            !.hist = Entered(g, u)])
    /\ UNCHANGED <<clock, store, cfg>>

\* A bug on_message could have: the test of lines 108-110 is missing, and a
\* direct message is counted under guild id 0.
ReceiveAnywhere(t) ==
    /\ task[t].pc = "idle"
    /\ \E bot \in BOOLEAN, webhook \in BOOLEAN, text \in Texts,
          g \in Guilds \cup {NoGuild}, u \in Users :
         (g = NoGuild \/ <<g, u>> \in Pairs) /\
         LET shorts_links == extract_shorts_links(text)
             window_start == WindowStart(clock, ROLLING_WINDOW_DAYS)
             m == [IdleTask EXCEPT !.kind = "msg"]
             n == [m EXCEPT !.links = Len(shorts_links)]
         IN  IF bot \/ webhook
             THEN Set(t, [m EXCEPT !.pc = "ignored", !.bot = TRUE])
             ELSE IF shorts_links = <<>>
             THEN Set(t, [n EXCEPT !.pc = "passthrough"])
             ELSE Set(t, [n EXCEPT !.pc = "count", !.guild = g, !.user = u,
                            !.window_start = window_start,
                            !.hist = Entered(g, u)])
    /\ UNCHANGED <<clock, store, cfg>>

\* on_message up to its first await (lines 97-114 and, inside
\* count_within_window, line 70).
Receive(t) ==
    /\ task[t].pc = "idle"
    /\ \E bot \in BOOLEAN, webhook \in BOOLEAN, text \in Texts,
          g \in Guilds \cup {NoGuild}, u \in Users :
         (g = NoGuild \/ <<g, u>> \in Pairs) /\
         LET shorts_links == extract_shorts_links(text)
             window_start == WindowStart(clock, ROLLING_WINDOW_DAYS)
             m == [IdleTask EXCEPT !.kind = "msg"]
             n == [m EXCEPT !.links = Len(shorts_links)]
         IN  IF bot \/ webhook
             THEN Set(t, [m EXCEPT !.pc = "ignored", !.bot = TRUE])
             ELSE IF shorts_links = <<>>
             THEN Set(t, [n EXCEPT !.pc = "passthrough"])
             ELSE IF g = NoGuild
             THEN Set(t, [n EXCEPT !.pc = "noguild"])
             ELSE Set(t, [n EXCEPT !.pc = "count", !.guild = g, !.user = u,
                            !.window_start = window_start,
                            !.hist = Entered(g, u)])
    /\ UNCHANGED <<clock, store, cfg>>

\* The step a blocked message takes after the channel notice (lines 139-148).
AfterNotice == IF cfg.DM_USER_ON_BLOCK THEN "dm" ELSE "blocked"

\* A call to the chat platform: acts lists the calls made, in order, and exc
\* is what the last one raised.
Call(t, what, outcome, goto) ==
    Set(t, [task[t] EXCEPT !.acts = Append(task[t].acts, what), !.exc = outcome,
                           !.pc = goto])

\* A storage error leaves the coroutine: nothing of lines 97-184 catches it
\* (a sqlite3 error is no discord.HTTPException; the finally of line 153
\* runs process_commands and lets it pass).
Fail(t) ==
    Set(t, [task[t] EXCEPT !.pc = "failed", !.exc = SqliteError, !.window_start = 0,
                           !.now_epoch = 0, !.hist = "none"])

\* A bug Select could have: the failed count is taken for a count of 0.
SelectFailOpen(t) ==
    /\ task[t].kind = "msg"
    /\ task[t].pc = "count"
    /\ \/ Set(t, [task[t] EXCEPT !.pc = "counted",
                    !.current_count = SelectCount(store, task[t].guild, task[t].user,
                                                  task[t].window_start)])
       \/ Set(t, [task[t] EXCEPT !.pc = "counted", !.exc = SqliteError,
                    !.current_count = 0])
    /\ UNCHANGED <<clock, store, cfg>>

\* count_within_window, lines 71-81: the SELECT on a connection of its own.
Select(t) ==
    /\ task[t].kind = "msg"
    /\ task[t].pc = "count"
    /\ \/ Set(t, [task[t] EXCEPT !.pc = "counted",
                    !.current_count = SelectCount(store, task[t].guild, task[t].user,
                                                  task[t].window_start),
                    !.hist = IF @ = "occ" /\ HasOccurrence(store, task[t].guild,
                                               task[t].user, task[t].window_start)
                             THEN "occ_counted" ELSE @])
       \/ Fail(t)
    /\ UNCHANGED <<clock, store, cfg>>

\* The history a handler keeps past its decision.
Kept(h) == IF h \in {"after_reset", "expired"} THEN h ELSE "none"

\* A bug Branch could have: a message that is not to be deleted is let in.
BranchOnFlag(t) ==
    /\ task[t].kind = "msg"
    /\ task[t].pc = "counted"
    /\ IF task[t].current_count >= 1 /\ cfg.DELETE_OFFENDING_MESSAGES
       THEN Set(t, [task[t] EXCEPT !.window_start = 0, !.current_count = 0,
                      !.hist = Kept(@), !.pc = "delete"])
       ELSE Set(t, [task[t] EXCEPT !.window_start = 0, !.current_count = 0,
                      !.hist = Kept(@), !.pc = "record", !.now_epoch = clock])
    /\ UNCHANGED <<clock, store, cfg>>

\* A bug Branch could have: the quota taken for 2.
BranchOffByOne(t) ==
    /\ task[t].kind = "msg"
    /\ task[t].pc = "counted"
    /\ IF task[t].current_count > 1
       THEN Set(t, [task[t] EXCEPT !.window_start = 0, !.current_count = 0,
                      !.hist = Kept(@),
                      !.pc = IF cfg.DELETE_OFFENDING_MESSAGES THEN "delete" ELSE "send"])
       ELSE Set(t, [task[t] EXCEPT !.window_start = 0, !.current_count = 0,
                      !.hist = Kept(@), !.pc = "record", !.now_epoch = clock])
    /\ UNCHANGED <<clock, store, cfg>>

\* Lines 115-123 and 149-151 with record_shorts_post's line 60: the branch on
\* current_count and, on the allow branch, the second reading of the clock.
Branch(t) ==
    /\ task[t].kind = "msg"
    /\ task[t].pc = "counted"
    /\ IF task[t].current_count >= 1
       THEN Set(t, [task[t] EXCEPT !.window_start = 0, !.current_count = 0,
                      !.hist = Kept(@),
                      !.pc = IF cfg.DELETE_OFFENDING_MESSAGES THEN "delete" ELSE "send"])
       ELSE Set(t, [task[t] EXCEPT !.window_start = 0, !.current_count = 0,
                      !.hist = Kept(@), !.pc = "record", !.now_epoch = clock])
    /\ UNCHANGED <<clock, store, cfg>>

\* A bug Commit could have: one row per link of the message.
CommitPerLink(t) ==
    /\ task[t].kind = "msg"
    /\ task[t].pc = "record"
    /\ \/ /\ Len(store) + task[t].links <= MaxRows
          /\ store' = IF task[t].links = 1
                      THEN InsertRow(store, task[t].guild, task[t].user, task[t].now_epoch)
                      ELSE InsertRow(InsertRow(store, task[t].guild, task[t].user,
                                               task[t].now_epoch),
                                     task[t].guild, task[t].user, task[t].now_epoch)
          /\ task' = [u \in Tasks |->
                        IF u = t
                        THEN [task[t] EXCEPT !.pc = "allowed", !.now_epoch = 0]
                        ELSE Spoil(task[u], task[t].guild, task[t].user)]
       \/ /\ Fail(t)
          /\ UNCHANGED store
    /\ UNCHANGED <<clock, cfg>>

\* record_shorts_post, lines 61-66: the INSERT and its commit.
Commit(t) ==
    /\ task[t].kind = "msg"
    /\ task[t].pc = "record"
    /\ \/ /\ Len(store) < MaxRows
          /\ store' = InsertRow(store, task[t].guild, task[t].user, task[t].now_epoch)
          /\ task' = [u \in Tasks |->
                        IF u = t
                        THEN [task[t] EXCEPT !.pc = "allowed", !.now_epoch = 0]
                        ELSE Spoil(task[u], task[t].guild, task[t].user)]
       \/ /\ Fail(t)
          /\ UNCHANGED store
    /\ UNCHANGED <<clock, cfg>>

\* A bug Delete could have: the private notice comes next, not the notice.
DeleteThenDM(t) ==
    /\ task[t].pc = "delete"
    /\ \E o \in Outcomes : Call(t, "delete", o, "dm")
    /\ UNCHANGED <<clock, store, cfg>>

\* Lines 123-129: message.delete(); both except clauses go on to the notice.
Delete(t) ==
    /\ task[t].pc = "delete"
    /\ \E o \in Outcomes : Call(t, "delete", o, "send")
    /\ UNCHANGED <<clock, store, cfg>>

\* A bug Send could have: the posted notice is left in the channel.
SendAndLeave(t) ==
    /\ task[t].pc = "send"
    /\ \E o \in Outcomes : Call(t, "send", o, AfterNotice)
    /\ UNCHANGED <<clock, store, cfg>>

\* Lines 132-133 and 136-137: message.channel.send(blocked_notice).
Send(t) ==
    /\ task[t].pc = "send"
    /\ \E o \in Outcomes : Call(t, "send", o, IF o = Ok THEN "sleep" ELSE AfterNotice)
    /\ UNCHANGED <<clock, store, cfg>>

\* Lines 134-137: asyncio.sleep(8), then warn_msg.delete().
Unsend(t) ==
    /\ task[t].pc = "sleep"
    /\ \E o \in Outcomes : Call(t, "unsend", o, AfterNotice)
    /\ UNCHANGED <<clock, store, cfg>>

\* Lines 140-148: message.author.send(...); only discord.Forbidden is caught.
DM(t) ==
    /\ task[t].pc = "dm"
    /\ \E o \in Outcomes :
         Call(t, "dm", o, IF o = HTTPException THEN "raised" ELSE "blocked")
    /\ UNCHANGED <<clock, store, cfg>>

\* shorts_stats up to the first await of count_within_window (lines 163-164, 70).
StatsStart(t) ==
    /\ task[t].pc = "idle"
    /\ \E <<g, u>> \in Pairs :
         Set(t, [IdleTask EXCEPT !.kind = "stats", !.pc = "stats_count",
                   !.guild = g, !.user = u,
                   !.window_start = WindowStart(clock, ROLLING_WINDOW_DAYS)])
    /\ UNCHANGED <<clock, store, cfg>>

\* A bug StatsSelect could have: the rows it counts are consumed.
StatsSelectConsumes(t) ==
    /\ task[t].kind = "stats"
    /\ task[t].pc = "stats_count"
    /\ \/ /\ Set(t, [task[t] EXCEPT !.pc = "stats_done", !.window_start = 0,
                       !.current_count = SelectCount(store, task[t].guild, task[t].user,
                                                     task[t].window_start)])
          /\ store' = DeleteRows(store, task[t].guild, task[t].user,
                                 task[t].window_start)
       \/ /\ Fail(t)
          /\ UNCHANGED store
    /\ UNCHANGED <<clock, cfg>>

\* shorts_stats: the SELECT and the reply (lines 71-81, 165-168).
StatsSelect(t) ==
    /\ task[t].kind = "stats"
    /\ task[t].pc = "stats_count"
    /\ \/ Set(t, [task[t] EXCEPT !.pc = "stats_done", !.window_start = 0,
                    !.current_count = SelectCount(store, task[t].guild, task[t].user,
                                                  task[t].window_start)])
       \/ Fail(t)
    /\ UNCHANGED <<clock, store, cfg>>

\* shorts_reset_me up to its first await (line 174).
ResetStart(t) ==
    /\ task[t].pc = "idle"
    /\ \E <<g, u>> \in Pairs :
         Set(t, [IdleTask EXCEPT !.kind = "reset", !.pc = "reset_delete",
                   !.guild = g, !.user = u,
                   !.window_start = WindowStart(clock, ROLLING_WINDOW_DAYS)])
    /\ UNCHANGED <<clock, store, cfg>>

\* shorts_reset_me: the DELETE, its commit and the reply (lines 175-184).
ResetDelete(t) ==
    /\ task[t].kind = "reset"
    /\ task[t].pc = "reset_delete"
    /\ \/ /\ store' = DeleteRows(store, task[t].guild, task[t].user, task[t].window_start)
          /\ Set(t, [task[t] EXCEPT !.pc = "reset_done", !.hist = "fresh",
                                    !.current_count = Len(store) - Len(store')])
       \/ /\ Fail(t)
          /\ UNCHANGED store
    /\ UNCHANGED <<clock, cfg>>

\* The places where a coroutine ends: by return or by an exception.
Terminal == {"ignored", "passthrough", "noguild", "allowed", "blocked", "raised",
             "failed", "stats_done", "reset_done"}

\* The event loop drops a finished task; its slot serves the next event.
Release(t) ==
    /\ task[t].pc \in Terminal
    /\ Set(t, IdleTask)
    /\ UNCHANGED <<clock, store, cfg>>

\* The wall clock moves on.
Tick ==
    /\ \E c \in Instants : c > clock /\ clock' = c
    /\ UNCHANGED <<store, task, cfg>>

\* The steps of a message handler after its entry.
Handle(t) ==
    \/ Select(t) \/ Branch(t) \/ Commit(t)
    \/ Delete(t) \/ Send(t) \/ Unsend(t) \/ DM(t)

Step(t) ==
    \/ Receive(t) \/ Handle(t)
    \/ StatsStart(t) \/ StatsSelect(t) \/ ResetStart(t) \/ ResetDelete(t)
    \/ Release(t)

Next == (\E t \in Tasks : Step(t)) \/ Tick

\* The bot on a fresh database, its coroutines interleaved at every await.
Spec == Init /\ [][Next]_vars

\* A database file left by earlier runs: any rows recorded up to now.
StoresUpTo(now) ==
    LET rows == {Row(p[1], p[2], ts) : p \in Pairs,
                                       ts \in {i \in Instants : i <= now}}
    IN  UNION {[1..n -> rows] : n \in 0..MaxRows}

InitDB ==
    /\ clock \in Instants
    /\ store \in StoresUpTo(clock)
    /\ task = [t \in Tasks |-> IdleTask]
    /\ cfg = Config

\* No other coroutine is under way.
Quiet(t) == \A u \in Tasks \ {t} : task[u].pc \in Terminal \cup {"idle"}

\* Each step of a coroutine, taken while no other coroutine is under way.
SeqReceive(t) == Quiet(t) /\ Receive(t)
SeqSelect(t) == Quiet(t) /\ Select(t)
SeqBranch(t) == Quiet(t) /\ Branch(t)
SeqCommit(t) == Quiet(t) /\ Commit(t)
SeqDelete(t) == Quiet(t) /\ Delete(t)
SeqSend(t) == Quiet(t) /\ Send(t)
SeqUnsend(t) == Quiet(t) /\ Unsend(t)
SeqDM(t) == Quiet(t) /\ DM(t)
SeqStatsStart(t) == Quiet(t) /\ StatsStart(t)
SeqStatsSelect(t) == Quiet(t) /\ StatsSelect(t)
SeqResetStart(t) == Quiet(t) /\ ResetStart(t)
SeqResetDelete(t) == Quiet(t) /\ ResetDelete(t)
SeqRelease(t) == Quiet(t) /\ Release(t)

NextSeq ==
    \/ \E t \in Tasks :
         \/ SeqReceive(t)
         \/ SeqSelect(t)
         \/ SeqBranch(t)
         \/ SeqCommit(t)
         \/ SeqDelete(t)
         \/ SeqSend(t)
         \/ SeqUnsend(t)
         \/ SeqDM(t)
         \/ SeqStatsStart(t)
         \/ SeqStatsSelect(t)
         \/ SeqResetStart(t)
         \/ SeqResetDelete(t)
         \/ SeqRelease(t)
    \/ Tick

\* The bot on any database, its events handled one after the other.
SpecSeq == InitDB /\ [][NextSeq]_vars

\* ---------------------------------------------------------------- C1
\* MaxTasks handlers entered at the same instant for one pair that has no
\* row: each is at its first await, the SELECT still to run.
InitRace ==
    /\ clock = 0
    /\ store = <<>>
    /\ cfg = Config
    /\ \E <<g, u>> \in Pairs :
         task \in [Tasks -> {[IdleTask EXCEPT !.kind = "msg", !.pc = "count",
                                !.guild = g, !.user = u, !.links = n,
                                !.window_start = WindowStart(0, ROLLING_WINDOW_DAYS)]
                             : n \in {Len(extract_shorts_links(x)) : x \in Texts} \ {0}}]

NextRace == (\E t \in Tasks : Handle(t)) \/ Tick

\* The handlers of one burst of messages of one pair, run to their end.
SpecRace == InitRace /\ [][NextRace]_vars

Allowed == {t \in Tasks : task[t].kind = "msg" /\ task[t].pc = "allowed"}
Blocked == {t \in Tasks : task[t].kind = "msg" /\ task[t].pc = "blocked"}

\* C1: when N >= 2 handlers evaluate the same pair concurrently, the pair
\* having no Occurrence beforehand, every interleaving of their count and
\* record steps ends with exactly 1 ALLOW, N-1 BLOCK and exactly 1 new
\* Occurrence stored (stated of the runs in which every handler returns).
C1_RaceOneAllow ==
    (\A t \in Tasks : task[t].pc \in {"allowed", "blocked"})
        => /\ Cardinality(Allowed) = 1
           /\ Cardinality(Blocked) = MaxTasks - 1
           /\ Len(store) = 1

\* ---------------------------------------------------------------- C2
\* The rows of a pair that lie in the trailing window [now - W, now].
InTrailingWindow(g, u) ==
    {i \in 1..Len(store) :
        /\ store[i].guild_id = g
        /\ store[i].user_id = u
        /\ store[i].posted_at_utc >= clock - ROLLING_WINDOW_DAYS
        /\ store[i].posted_at_utc <= clock}

\* C2: in every reachable state, whatever the interleaving of message
\* evaluations, stats queries, resets and clock advances, each pair has at
\* most 1 Occurrence whose observed_at lies in [now - W, now].
C2_AtMostOneInWindow ==
    \A p \in Pairs : Cardinality(InTrailingWindow(p[1], p[2])) <= 1

\* ---------------------------------------------------------------- C3
\* The places of a handler that has decided BLOCK (lines 116-148).
BlockPath == {"delete", "send", "sleep", "dm", "blocked", "raised"}

\* The handler that has decided BLOCK never writes the table.
BlockedNeverRecords ==
    \A t \in Tasks :
        (task[t].pc \in BlockPath /\ task'[t] # task[t]) => store' = store

\* The decision of a handler whose history field is in hs is BLOCK, and
\* taking it leaves the table as it is.
DecidesBlock(hs) ==
    \A t \in Tasks :
        (/\ task[t].kind = "msg"
         /\ task[t].pc = "counted"
         /\ task[t].hist \in hs
         /\ task'[t].pc # "counted")
            => (task'[t].pc \in BlockPath /\ store' = store)

\* C3 as claimed: after an evaluation of a pair has ended in ALLOW, any later
\* evaluation of the pair that starts (the handler is entered) while the
\* recorded Occurrence is inside the window ends in BLOCK and leaves the
\* stored Occurrences unchanged.
C3_BlockAfterAllow ==
    [][DecidesBlock({"occ", "occ_counted"}) /\ BlockedNeverRecords]_vars

\* C3 as amended: the same, for the evaluation whose count runs while the
\* Occurrence is still stored (no reset has removed it since the handler was
\* entered).
C3_BlockWhileStored ==
    [][DecidesBlock({"occ_counted"}) /\ BlockedNeverRecords]_vars

\* A handler entered after an ALLOW of its pair, its count run with the
\* Occurrence still in the window, has gone on to the advisory calls.
C3_Witness ==
    \E t \in Tasks, a \in Tasks :
        /\ a # t
        /\ task[a].pc = "allowed"
        /\ task[t].guild = task[a].guild
        /\ task[t].user = task[a].user
        /\ task[t].pc = "blocked"
        /\ Len(store) = 1

\* ---------------------------------------------------------------- C4
\* The handler entered when the only Occurrence of its pair has left the
\* window counts 0 and stays on the allow branch.
ExpiredIsAllowed ==
    \A t \in Tasks :
        (task[t].kind = "msg" /\ task[t].hist = "expired")
            => /\ task[t].pc \in {"count", "counted", "record", "allowed"}
               /\ task[t].pc = "counted" => task[t].current_count = 0

\* Its record step adds one row of the pair, stamped no later than now and
\* later than the window of the old row, unless the store fails.
ExpiredIsRecorded ==
    \A t \in Tasks :
        (/\ task[t].kind = "msg"
         /\ task[t].hist = "expired"
         /\ task[t].pc = "record"
         /\ task'[t].pc # "record")
            => \/ task'[t].pc = "failed" /\ store' = store
               \/ /\ task'[t].pc = "allowed"
                  /\ Len(store') = Len(store) + 1
                  /\ SubSeq(store', 1, Len(store)) = store
                  /\ store'[Len(store')].guild_id = task[t].guild
                  /\ store'[Len(store')].user_id = task[t].user
                  /\ store'[Len(store')].posted_at_utc <= clock
                  /\ \A i \in RowsOf(store, task[t].guild, task[t].user) :
                        store'[Len(store')].posted_at_utc
                            > store[i].posted_at_utc + ROLLING_WINDOW_DAYS

\* A stats query of the pair made next, the new row in its window, reports 1.
StatsAfterExpired ==
    \A s \in Tasks, t \in Tasks :
        (/\ task[t].kind = "msg"
         /\ task[t].hist = "expired"
         /\ task[t].pc = "allowed"
         /\ task[s].kind = "stats"
         /\ task[s].pc = "stats_count"
         /\ task'[s].pc = "stats_done"
         /\ task[s].guild = task[t].guild
         /\ task[s].user = task[t].user
         /\ Cardinality(RowsOf(store, task[t].guild, task[t].user)) = 2
         /\ store[Len(store)].guild_id = task[t].guild
         /\ store[Len(store)].user_id = task[t].user
         /\ store[Len(store)].posted_at_utc >= clock - ROLLING_WINDOW_DAYS)
            => task'[s].current_count = 1

\* C4: for a pair whose only Occurrence was recorded at instant t, a
\* sequential evaluation at an instant now with now - W > t ends in ALLOW and
\* records a new Occurrence, however many BLOCKed attempts came in between,
\* and a stats query right after reports a count of 1.
C4_AllowAfterWindow ==
    /\ []ExpiredIsAllowed
    /\ [][ExpiredIsRecorded /\ StatsAfterExpired]_vars

\* The old row, the row of the new ALLOW, and the stats query that followed
\* and reported 1.
C4_Witness ==
    \E s \in Tasks, t \in Tasks :
        /\ task[t].kind = "msg"
        /\ task[t].hist = "expired"
        /\ task[t].pc = "allowed"
        /\ task[s].pc = "stats_done"
        /\ task[s].guild = task[t].guild
        /\ task[s].user = task[t].user
        /\ task[s].current_count = 1
        /\ Cardinality(RowsOf(store, task[t].guild, task[t].user)) = 2

\* ---------------------------------------------------------------- C5
\* The rows a count of task t is to count: those of its guild and its user
\* stamped at or after its window_start.
Counted(t) ==
    {i \in 1..Len(store) :
        /\ store[i].guild_id = task[t].guild
        /\ store[i].user_id = task[t].user
        /\ store[i].posted_at_utc >= task[t].window_start}

\* A call of count_within_window takes its window_start from the clock.
CountFromNow ==
    \A t \in Tasks :
        (task[t].pc = "idle" /\ task'[t].pc \in {"count", "stats_count"})
            => task'[t].window_start = clock - ROLLING_WINDOW_DAYS

\* Its SELECT returns the number of those rows.
CountIsExact ==
    \A t \in Tasks :
        (\/ task[t].pc = "count" /\ task'[t].pc = "counted"
         \/ task[t].pc = "stats_count" /\ task'[t].pc = "stats_done")
            => task'[t].current_count = Cardinality(Counted(t))

\* C5: for every store content and every pair, count_within_window returns
\* exactly the number of rows of that community and that user with
\* posted_at_utc >= now - W, and counts nothing else.
C5_CountExact == [][CountFromNow /\ CountIsExact]_vars

\* A count of 1 over a table of two rows: the other row is of another pair
\* or out of the window.
C5_Witness ==
    \E t \in Tasks :
        /\ task[t].pc = "stats_done"
        /\ task[t].current_count = 1
        /\ Len(store) = 2

\* ---------------------------------------------------------------- C9
\* A reset of the same pair at the same instant has just finished, and no
\* row of the pair was inserted since.
SameResetBefore(t) ==
    \E r \in Tasks \ {t} :
        /\ task[r].kind = "reset"
        /\ task[r].pc = "reset_done"
        /\ task[r].hist = "fresh"
        /\ task[r].guild = task[t].guild
        /\ task[r].user = task[t].user
        /\ task[r].window_start = task[t].window_start

\* The DELETE of a reset leaves no row of the pair at or after now - W, and
\* leaves the table as it is when the same reset came right before.
ResetOnce ==
    \A t \in Tasks :
        (/\ task[t].kind = "reset"
         /\ task[t].pc = "reset_delete"
         /\ task'[t].pc = "reset_done")
            => /\ ~HasOccurrence(store', task[t].guild, task[t].user,
                                 task[t].window_start)
               /\ task[t].window_start = task'[t].window_start
               /\ SameResetBefore(t) => store' = store

\* C9: reset is idempotent: for every store content and every pair, a reset
\* applied twice in a row at the same instant leaves the store as one reset
\* leaves it, with no Occurrence of the pair at or after now - W.
C9_ResetIdempotent == [][ResetOnce]_vars

\* Two finished resets of one pair at one instant, rows of the other kind
\* still in the table.
C9_Witness ==
    \E t \in Tasks, r \in Tasks :
        /\ t # r
        /\ task[t].pc = "reset_done"
        /\ task[r].pc = "reset_done"
        /\ task[t].hist = "fresh"
        /\ task[r].hist = "fresh"
        /\ task[t].guild = task[r].guild
        /\ task[t].user = task[r].user
        /\ task[t].window_start = task[r].window_start
        /\ store # <<>>

\* ---------------------------------------------------------------- C6
\* A handler whose store call raised has ended by that error, having made
\* no advisory call.
StorageErrorEnds ==
    \A t \in Tasks :
        (task[t].kind = "msg" /\ task[t].exc = SqliteError)
            => (task[t].pc = "failed" /\ task[t].acts = <<>>)

\* The step on which the store raises adds no row.
StorageErrorWritesNothing ==
    \A t \in Tasks :
        (task[t].kind = "msg" /\ task[t].exc # SqliteError
                              /\ task'[t].exc = SqliteError)
            => (task[t].pc \in {"count", "record"} /\ store' = store)

\* C6: if the store raises during the count or the record of a message's
\* evaluation, the evaluation ends in an error outcome distinct from ALLOW
\* and BLOCK: the error leaves the handler, no Occurrence is added, no
\* advisory action is performed, and the failure is never taken for ALLOW.
C6_StorageErrorPropagates ==
    /\ []StorageErrorEnds
    /\ [][StorageErrorWritesNothing]_vars

\* A handler ended by a storage error.
C6_Witness ==
    \E t \in Tasks :
        /\ task[t].kind = "msg"
        /\ task[t].pc = "failed"
        /\ task[t].exc = SqliteError

\* ---------------------------------------------------------------- C7
\* C7: on a BLOCKED message, for every combination and every kind of failure
\* of the three advisory actions, each other enabled action is still
\* attempted, the handler does not end in an error, and the decision stays
\* BLOCK with no Occurrence recorded.
C7_AdvisoryIndependent ==
    \A t \in Tasks :
        /\ task[t].pc # "raised"
        /\ task[t].pc = "blocked"
             => /\ cfg.DELETE_OFFENDING_MESSAGES => Did(t, "delete")
                /\ Did(t, "send")
                /\ cfg.DM_USER_ON_BLOCK => Did(t, "dm")

\* ---------------------------------------------------------------- C8
\* C8: a reset of a pair immediately followed by an evaluation of the same
\* pair (no other operation of the pair in between) makes that evaluation
\* end in ALLOW, whatever Occurrences of the pair were in the window before
\* the reset: it counts 0 and stays on the allow branch.
C8_AllowAfterReset ==
    \A t \in Tasks :
        (task[t].kind = "msg" /\ task[t].hist = "after_reset")
            => /\ task[t].pc \in {"count", "counted", "record", "allowed"}
               /\ task[t].pc = "counted" => task[t].current_count = 0

\* A reset that removed a row of the pair, and the evaluation entered right
\* after it, ended in ALLOW.
C8_Witness ==
    \E t \in Tasks, r \in Tasks :
        /\ task[t].kind = "msg"
        /\ task[t].hist = "after_reset"
        /\ task[t].pc = "allowed"
        /\ task[r].kind = "reset"
        /\ task[r].pc = "reset_done"
        /\ task[r].guild = task[t].guild
        /\ task[r].user = task[t].user
        /\ task[r].current_count >= 1

\* --------------------------------------------------------------- C10
\* How far a handler is.
Rank(pc) ==
    CASE pc = "idle" -> 0
      [] pc = "count" -> 1
      [] pc = "counted" -> 2
      [] pc \in {"record", "delete"} -> 3
      [] pc = "send" -> 4
      [] pc = "sleep" -> 5
      [] pc = "dm" -> 6
      [] OTHER -> 7

\* A message that is not self- or system-originated and whose handler ended.
Ended(t) ==
    task[t].kind = "msg" /\ task[t].pc \in Terminal /\ task[t].pc # "ignored"

\* A handler under way can take a step, every step takes it further, and the
\* place it ends at is its last: it reaches one terminal state and no second.
Terminates ==
    /\ [](\A t \in Tasks :
            (task[t].kind = "msg" /\ task[t].pc \notin Terminal)
                => ENABLED Handle(t))
    /\ [][\A t \in Tasks :
            /\ (task[t].kind = "msg" /\ task'[t].pc # task[t].pc
                                     /\ task[t].pc \notin Terminal)
                 => Rank(task'[t].pc) > Rank(task[t].pc)
            /\ (task[t].kind = "msg" /\ task[t].pc \in Terminal)
                 => task'[t] \in {task[t], IdleTask}]_vars

\* C10 as claimed: every received message that is not self/system-originated
\* eventually reaches exactly one of PASSTHROUGH, ALLOWED, BLOCKED and never a
\* second one: PASSTHROUGH exactly when the text holds no qualifying link,
\* otherwise ALLOWED or BLOCKED after an evaluation.
C10_ThreeTerminals ==
    /\ Terminates
    /\ [](\A t \in Tasks :
            Ended(t) => \/ task[t].links = 0 /\ task[t].pc = "passthrough"
                        \/ task[t].links >= 1 /\ task[t].pc \in {"allowed", "blocked"})

\* C10 as amended: ... PASSTHROUGH exactly when the text holds no qualifying
\* link or the message came from outside any community; otherwise, after an
\* evaluation, ALLOWED, BLOCKED (the handler returned, or the error of its
\* private notice left it) or FAILED (the store raised).
C10_FourTerminals ==
    /\ Terminates
    /\ [](\A t \in Tasks :
            Ended(t) => \/ task[t].links = 0 /\ task[t].pc = "passthrough"
                        \/ task[t].links >= 1 /\ task[t].guild = NoGuild
                                              /\ task[t].pc = "noguild"
                        \/ task[t].links >= 1 /\ task[t].guild # NoGuild
                              /\ task[t].pc \in {"allowed", "blocked", "raised", "failed"})

\* One message passed through for want of a guild, another ended by a
\* storage error.
C10_Witness ==
    \E t \in Tasks, u \in Tasks :
        /\ task[t].kind = "msg" /\ task[t].pc = "noguild" /\ task[t].links >= 1
        /\ task[u].kind = "msg" /\ task[u].pc = "failed"

\* --------------------------------------------------------------- C11
\* The step that ends a handler in ALLOW appends one row of its pair, and no
\* other step of a message handler changes the table.
OneRowPerAllow ==
    \A t \in Tasks :
        ((task[t].kind = "msg" \/ task'[t].kind = "msg") /\ task'[t].pc # task[t].pc)
            => IF task'[t].pc = "allowed"
               THEN /\ task[t].pc = "record"
                    /\ task[t].links >= 1
                    /\ store' = Append(store, Row(task[t].guild, task[t].user,
                                                  task[t].now_epoch))
               ELSE store' = store

\* C11: every ALLOWED message adds exactly one Occurrence for its pair,
\* whatever the number (>= 1) of qualifying links in its text; a PASSTHROUGH
\* or BLOCKED message adds none.
C11_OneOccurrencePerMessage == [][OneRowPerAllow]_vars

\* A message of two links was allowed, and the table holds one row, of its
\* pair.
C11_Witness ==
    \E t \in Tasks :
        /\ task[t].kind = "msg"
        /\ task[t].pc = "allowed"
        /\ task[t].links = 2
        /\ Len(store) = 1
        /\ RowsOf(store, task[t].guild, task[t].user) = {1}

\* --------------------------------------------------------------- C12
\* Pairs of a second guild, whose rows an earlier run of the bot left in the
\* table: the same users seen in guild 2.
ForeignPairs == {<<2, u>> : u \in Users}

\* The database file holds one row of a pair of the second guild.
InitGuilds ==
    /\ clock = 0
    /\ store \in {<<Row(p[1], p[2], 0)>> : p \in ForeignPairs}
    /\ task = [t \in Tasks |-> IdleTask]
    /\ cfg = Config

\* The bot on a database that holds rows of another guild, its coroutines
\* interleaved at every await.
SpecGuilds == InitGuilds /\ [][Next]_vars

\* The rows of pair (g, u), in id order.
PairRows(rows, g, u) ==
    LET OfPair(r) == r.guild_id = g /\ r.user_id = u
    IN  SelectSeq(rows, OfPair)

\* A step of a coroutine of pair P leaves the rows of every other pair as
\* they are.
OtherPairsUntouched ==
    \A t \in Tasks :
        task'[t].pc # task[t].pc
            => \A q \in Pairs \cup ForeignPairs :
                  q # <<task[t].guild, task[t].user>>
                      => PairRows(store', q[1], q[2]) = PairRows(store, q[1], q[2])

\* The count a coroutine reads is the count over the rows of its own pair:
\* the rows of the other pairs make no difference to it.
CountOfOwnRows ==
    \A t \in Tasks :
        (\/ task[t].pc = "count" /\ task'[t].pc = "counted"
         \/ task[t].pc = "stats_count" /\ task'[t].pc = "stats_done")
            => task'[t].current_count
                  = SelectCount(PairRows(store, task[t].guild, task[t].user),
                                task[t].guild, task[t].user, task[t].window_start)

\* C12: an evaluation (ALLOW or BLOCK), a stats query or a reset for pair P
\* leaves the Occurrences of every pair Q # P unchanged, also when Q shares
\* only the community or only the user with P, and the decision for Q is
\* taken from the rows of Q alone.
C12_PairsIsolated == [][OtherPairsUntouched /\ CountOfOwnRows]_vars

\* A reset removed a row of its pair while the table holds a row of the same
\* user in the other guild, inside the window of the reset.
C12_Witness ==
    \E t \in Tasks, i \in 1..Len(store) :
        /\ task[t].kind = "reset"
        /\ task[t].pc = "reset_done"
        /\ task[t].hist = "fresh"
        /\ task[t].current_count >= 1
        /\ store[i].user_id = task[t].user
        /\ store[i].guild_id # task[t].guild
        /\ store[i].posted_at_utc >= task[t].window_start

\* --------------------------------------------------------------- C13
\* Every step of a stats query leaves the table, the clock and the other
\* coroutines as they are.
StatsChangesNothing ==
    \A t \in Tasks :
        ((task[t].kind = "stats" \/ task'[t].kind = "stats")
            /\ task'[t].pc # task[t].pc)
            => /\ store' = store
               /\ clock' = clock
               /\ \A u \in Tasks \ {t} : task'[u] = task[u]

\* The query takes its window from the clock when it is made, and replies
\* with the number of rows of its pair in that window at its SELECT.
StatsReportsCount ==
    \A t \in Tasks :
        /\ (task[t].pc = "idle" /\ task'[t].kind = "stats")
              => task'[t].window_start = clock - ROLLING_WINDOW_DAYS
        /\ (task[t].kind = "stats" /\ task'[t].pc = "stats_done"
                                   /\ task[t].pc # "stats_done")
              => task'[t].current_count
                    = Cardinality({i \in 1..Len(store) :
                          /\ store[i].guild_id = task[t].guild
                          /\ store[i].user_id = task[t].user
                          /\ store[i].posted_at_utc >= task[t].window_start})

\* C13: a stats query is read-only: for every store content it returns the
\* count of the queried pair's Occurrences with observed_at >= now - W and
\* leaves the whole store unchanged, also when it interleaves with
\* evaluations and resets.
C13_StatsReadOnly == [][StatsChangesNothing /\ StatsReportsCount]_vars

\* A stats query replied 1 while an evaluation and the table's row were
\* there: the row is still in the table.
C13_Witness ==
    \E s \in Tasks, t \in Tasks :
        /\ task[s].kind = "stats"
        /\ task[s].pc = "stats_done"
        /\ task[s].current_count = 1
        /\ task[t].kind = "msg"
        /\ task[t].pc \in {"count", "counted", "record"}
        /\ Cardinality(RowsOf(store, task[s].guild, task[s].user)) = 1

\* --------------------------------------------------------------- C14
\* The handler of a bot's or a webhook's message has ended at once: it
\* matched no link, read no count and made no advisory call.
SelfOriginatedIsDropped ==
    \A t \in Tasks :
        task[t].bot
            => task[t] = [IdleTask EXCEPT !.kind = "msg", !.pc = "ignored",
                                          !.bot = TRUE]

\* Its arrival and its end leave the table, the clock and every other
\* coroutine as they are.
SelfOriginatedChangesNothing ==
    \A t \in Tasks :
        ((task[t].bot \/ task'[t].bot) /\ task'[t] # task[t])
            => /\ store' = store
               /\ clock' = clock
               /\ \A u \in Tasks \ {t} : task'[u] = task[u]
               /\ task[t].bot => task'[t] = IdleTask

\* C14: a self- or system-originated message (bot author or webhook) is
\* dropped before link matching: whatever its text, it causes no store read,
\* no store write and no advisory action, and the decision for later
\* messages of any pair is unaffected by it.
C14_SelfOriginatedDropped ==
    /\ []SelfOriginatedIsDropped
    /\ [][SelfOriginatedChangesNothing]_vars

\* A bot's message was dropped while an evaluation has counted the row of
\* its pair.
C14_Witness ==
    \E t \in Tasks, u \in Tasks :
        /\ task[t].bot
        /\ task[t].pc = "ignored"
        /\ task[u].kind = "msg"
        /\ task[u].pc = "counted"
        /\ task[u].current_count = 1

\* --------------------------------------------------------------- C15
\* C15: on ALLOW, the Occurrence that is committed carries the same instant
\* now from which the cutoff of that evaluation's count was computed, even
\* when the clock advances between the count step and the record step.
C15_RecordsCutoffInstant ==
    [][\A t \in Tasks :
          /\ (task[t].kind = "msg" /\ task[t].pc = "counted"
                                   /\ task'[t].pc = "record")
                => task'[t].now_epoch = task[t].window_start + ROLLING_WINDOW_DAYS
          /\ (task[t].kind = "msg" /\ task[t].pc = "record"
                                   /\ task'[t].pc = "allowed")
                => store'[Len(store')].posted_at_utc = task[t].now_epoch]_vars

\* --------------------------------------------------------------- C16
\* Each advisory call is made in its place: the deletion first, the channel
\* notice after the deletion attempt (first when deletion is switched off),
\* the removal of the notice after a notice that was posted, the private
\* notice after the removal, or after the notice when posting it failed.
CallsInOrder ==
    \A t \in Tasks :
        task'[t].acts # task[t].acts
            => LET done == task[t].acts
                   last == IF done = <<>> THEN "none" ELSE done[Len(done)]
               IN  \/ task'[t].acts = <<>>
                   \/ /\ task'[t].acts = Append(done, "delete")
                      /\ done = <<>>
                   \/ /\ task'[t].acts = Append(done, "send")
                      /\ done = IF cfg.DELETE_OFFENDING_MESSAGES
                                THEN <<"delete">> ELSE <<>>
                   \/ /\ task'[t].acts = Append(done, "unsend")
                      /\ last = "send"
                      /\ task[t].exc = Ok
                   \/ /\ task'[t].acts = Append(done, "dm")
                      /\ \/ last = "unsend"
                         \/ last = "send" /\ task[t].exc # Ok

\* C16: for every BLOCKED message the advisory actions happen in a fixed
\* order: the deletion attempt comes before the channel-notice attempt, the
\* private-notice attempt after the channel notice and its timed removal;
\* no private notice is ever attempted before the channel notice.
C16_AdvisoryOrder == [][CallsInOrder]_vars

\* A blocked message whose four calls were made.
C16_Witness ==
    \E t \in Tasks :
        /\ task[t].pc = "blocked"
        /\ task[t].acts = <<"delete", "send", "unsend", "dm">>

\* --------------------------------------------------------------- C17
\* The rows of the handler's pair stamped exactly W before, and exactly W
\* and one unit before, the instant the handler was entered at.
AtEdge(t) ==
    {i \in RowsOf(store, task[t].guild, task[t].user) :
        store[i].posted_at_utc = task[t].window_start}

JustOut(t) ==
    {i \in RowsOf(store, task[t].guild, task[t].user) :
        store[i].posted_at_utc = task[t].window_start - 1}

\* The handler takes its cutoff from the instant it is entered at.
CutoffFromNow ==
    \A t \in Tasks :
        (task[t].pc = "idle" /\ task'[t].pc = "count")
            => task'[t].window_start = clock - ROLLING_WINDOW_DAYS

\* A row at the cutoff is counted and the decision is BLOCK; when the only
\* row of the pair is one unit older than the cutoff the count is 0 and the
\* handler goes on to record.
EdgeDecision ==
    \A t \in Tasks :
        (task[t].kind = "msg" /\ task[t].pc = "counted" /\ task'[t].pc # "counted")
            => /\ AtEdge(t) # {}
                    => /\ task[t].current_count >= 1
                       /\ task'[t].pc \in BlockPath
                       /\ store' = store
               /\ (JustOut(t) = RowsOf(store, task[t].guild, task[t].user)
                     /\ JustOut(t) # {})
                    => /\ task[t].current_count = 0
                       /\ task'[t].pc = "record"

\* C17: the window is closed at its lower end: an Occurrence whose
\* observed_at equals exactly now - W is still counted, so an evaluation at
\* exactly W after the recorded instant ends in BLOCK, and the first instant
\* at which the pair is ALLOWed again is W plus one clock unit after it.
C17_WindowClosedBelow == [][CutoffFromNow /\ EdgeDecision]_vars

\* Entered exactly W after the pair's row was stamped, the handler counted
\* that row.
C17_Witness ==
    \E t \in Tasks :
        /\ task[t].kind = "msg"
        /\ task[t].pc = "counted"
        /\ task[t].current_count = 1
        /\ AtEdge(t) # {}
        /\ clock = task[t].window_start + ROLLING_WINDOW_DAYS

\* --------------------------------------------------------------- C18
\* The event loop resumes every coroutine whose await has completed: the
\* calls to the table and to the chat platform return or raise, and
\* asyncio.sleep(8) ends.
FairRace == SpecRace /\ \A t \in Tasks : WF_vars(Handle(t))

\* The channel notice of the handler was posted, and nothing was done since.
Posted(t) ==
    /\ task[t].acts # <<>>
    /\ task[t].acts[Len(task[t].acts)] = "send"
    /\ task[t].exc = Ok

\* Whatever the removal of the notice raises, the handler goes on to its
\* next step: the private notice when it is switched on, its return when
\* it is not.
RemovalSwallowed ==
    \A t \in Tasks :
        (Posted(t) /\ task'[t].acts # task[t].acts)
            => /\ task'[t].acts = Append(task[t].acts, "unsend")
               /\ task'[t].pc = AfterNotice

\* C18: every transient channel notice that was successfully posted for a
\* BLOCKED message is eventually followed by an attempt to remove it; if
\* that removal fails the failure is swallowed: it raises nothing out of the
\* handler, the remaining private-notice step is still attempted and the
\* handler terminates.
C18_NoticeRemoved ==
    /\ \A t \in Tasks : Posted(t) ~> Did(t, "unsend")
    /\ [][RemovalSwallowed]_vars
    /\ \A t \in Tasks :
          Did(t, "unsend")
              ~> (task[t].pc \in Terminal /\ (cfg.DM_USER_ON_BLOCK => Did(t, "dm")))

\* The removal of a posted notice raised, and the handler is at its private
\* notice.
C18_Witness ==
    \E t \in Tasks :
        /\ task[t].pc = "dm"
        /\ task[t].acts = <<"delete", "send", "unsend">>
        /\ task[t].exc = HTTPException

\* --------------------------------------------------------------- C19
\* The settings an operator may have edited at lines 17 and 19.
Configs == [DELETE_OFFENDING_MESSAGES : BOOLEAN, DM_USER_ON_BLOCK : BOOLEAN]

\* A fresh database, the bot started under any setting of the two flags.
InitFlags ==
    /\ clock = 0
    /\ store = <<>>
    /\ task = [t \in Tasks |-> IdleTask]
    /\ cfg \in Configs

\* The bot under any setting of the flags, its coroutines interleaved at
\* every await.
SpecFlags == InitFlags /\ [][Next]_vars

\* The flags gate the deletion and the private notice; the channel notice
\* is attempted by every handler that has come past it.
FlagsGateAdvisory ==
    \A t \in Tasks :
        /\ ~cfg.DELETE_OFFENDING_MESSAGES => ~Did(t, "delete")
        /\ ~cfg.DM_USER_ON_BLOCK => ~Did(t, "dm")
        /\ task[t].pc \in {"sleep", "dm", "blocked", "raised"} => Did(t, "send")
        /\ (task[t].pc \in {"send", "sleep", "dm", "blocked", "raised"}
               /\ cfg.DELETE_OFFENDING_MESSAGES) => Did(t, "delete")
        /\ (task[t].pc \in {"blocked", "raised"} /\ cfg.DM_USER_ON_BLOCK)
              => Did(t, "dm")

\* The decision is taken from the count alone, and what a step does to the
\* table is told by the step, whatever the flags: the record of an allowed
\* message appends its row, a reset deletes its pair's window, every other
\* step leaves the table as it is.
FlagsLeaveDecision ==
    /\ cfg' = cfg
    /\ \A t \in Tasks :
          task'[t].pc # task[t].pc
              => /\ (task[t].kind = "msg" /\ task[t].pc = "counted")
                      => /\ task[t].current_count >= 1 => task'[t].pc \in BlockPath
                         /\ task[t].current_count = 0 => task'[t].pc = "record"
                 /\ store' = IF task[t].pc = "record" /\ task'[t].pc = "allowed"
                             THEN Append(store, Row(task[t].guild, task[t].user,
                                                    task[t].now_epoch))
                             ELSE IF task'[t].pc = "reset_done"
                             THEN DeleteRows(store, task[t].guild, task[t].user,
                                             task[t].window_start)
                             ELSE store

\* C19: the configuration flags gate only the advisory actions, never the
\* decision: with delete_offending_messages false a BLOCKED message is
\* never deleted, with dm_user_on_block false no private notice is ever
\* attempted, and under every combination of the two flags the ALLOW/BLOCK
\* outcome and the stored Occurrences are the same as with both flags true
\* and the channel notice is still attempted.
C19_FlagsGateAdvisoryOnly ==
    /\ []FlagsGateAdvisory
    /\ [][FlagsLeaveDecision]_vars

\* Both flags off: a message was blocked with the channel notice and its
\* removal as its only calls, the row of the earlier ALLOW in the table.
C19_Witness ==
    \E t \in Tasks :
        /\ ~cfg.DELETE_OFFENDING_MESSAGES
        /\ ~cfg.DM_USER_ON_BLOCK
        /\ task[t].pc = "blocked"
        /\ task[t].acts = <<"send", "unsend">>
        /\ RowsOf(store, task[t].guild, task[t].user) = {1}

\* --------------------------------------------------------------- C20
\* A message with links that came with no guild has ended at once: it has
\* read no count, taken no window and made no advisory call; and no handler
\* that is evaluating, and no row, is without a guild.
DirectMessageNotEvaluated ==
    /\ \A t \in Tasks :
          /\ (task[t].kind = "msg" /\ task[t].links >= 1 /\ task[t].guild = NoGuild)
                => task[t] = [IdleTask EXCEPT !.kind = "msg", !.pc = "noguild",
                                              !.links = task[t].links]
          /\ (task[t].kind = "msg" /\ task[t].pc \notin Terminal)
                => task[t].guild # NoGuild
    /\ \A i \in 1..Len(store) : store[i].guild_id # NoGuild

\* Its arrival and its end leave the table, the clock and every other
\* coroutine as they are.
DirectMessageChangesNothing ==
    \A t \in Tasks :
        ((task[t].pc = "noguild" \/ task'[t].pc = "noguild") /\ task'[t] # task[t])
            => /\ store' = store
               /\ clock' = clock
               /\ \A u \in Tasks \ {t} : task'[u] = task[u]
               /\ task[t].pc = "noguild" => task'[t] = IdleTask

\* C20: a message that contains qualifying links but was received outside
\* any community (a direct message) is never evaluated: it causes no store
\* read, no store write and no advisory action, so links posted there are
\* neither counted against nor blocked by any pair's quota.
C20_DirectMessageNotEvaluated ==
    /\ []DirectMessageNotEvaluated
    /\ [][DirectMessageChangesNothing]_vars

\* A direct message of two links has ended while a row of some pair is in
\* the table and an evaluation of a guild message is under way.
C20_Witness ==
    \E t \in Tasks, u \in Tasks :
        /\ task[t].pc = "noguild"
        /\ task[t].links = 2
        /\ task[u].kind = "msg"
        /\ task[u].pc = "counted"
        /\ Len(store) = 1

====
